---- MODULE Spec2Model ----
(***************************************************************************)
(* Bet tracker (app.py): the ledger file, the page cycle of a Streamlit    *)
(* session (load_bets, form submission, add_bet/save_bets, dashboard) and  *)
(* the pure helpers american_to_decimal, compute_metrics and               *)
(* bankroll_simulation.                                                    *)
(*                                                                         *)
(* Representation.                                                         *)
(*  - A DataFrame is the sequence of its rows; a row is a record with the  *)
(*    14 columns of load_bets.                                             *)
(*  - A float is an exact rational <<n, d>> with d > 0 in lowest terms;    *)
(*    <<0,0>> is NaN, <<1,0>> is +inf, <<-1,0>> is -inf (rounding of       *)
(*    binary floats is not modelled).  Money amounts and American odds     *)
(*    are whole numbers.                                                   *)
(*  - A date is a day number; in the file it is the text to_csv writes.    *)
(*  - A text column holds a string, or NaN (the missing value read_csv     *)
(*    produces for an empty cell).  Text inputs are non-numeric strings    *)
(*    or the empty string.                                                 *)
(***************************************************************************)
EXTENDS Integers, Sequences, FiniteSets, TLC

\* Longest ledger (number of acknowledged submissions) explored.
MaxLen == 2
\* Days the date_input widget can return: 1..MaxDate.
MaxDate == 2

(***************************************************************************)
(* Floats as rationals                                                     *)
(***************************************************************************)
Abs(x) == IF x < 0 THEN -x ELSE x

RECURSIVE GCD(_, _)
GCD(a, b) == IF b = 0 THEN a ELSE GCD(b, a % b)

FNaN == <<0, 0>>

IsFinite(x) == x[2] # 0

Sign(x) == IF x > 0 THEN 1 ELSE IF x < 0 THEN -1 ELSE 0

\* n/d with d # 0 brought to lowest terms with a positive denominator.
Norm(n, d) ==
    LET g == GCD(Abs(n), Abs(d))
    IN  <<Sign(d) * (n \div g), Abs(d) \div g>>

\* int -> float
ToFloat(n) == <<n, 1>>

\* numpy true division of two numbers: x/0 is +-inf, 0/0 is NaN, no exception.
NpDiv(a, b) == IF b = 0 THEN <<Sign(a), 0>> ELSE Norm(a, b)

\* Python float addition (only NaN and finite operands arise).
FAdd(x, y) ==
    IF ~IsFinite(x) \/ ~IsFinite(y) THEN FNaN
    ELSE Norm(x[1] * y[2] + y[1] * x[2], x[2] * y[2])

(***************************************************************************)
(* Configuration                                                           *)
(***************************************************************************)
STARTING_BANKROLLS ==
    [b \in {"FanDuel", "DraftKings", "Caesars"} |-> 200]

\* The missing value (float NaN) as it appears in a text column.
NaN == "<NaN>"

(***************************************************************************)
(* american_to_decimal                                                     *)
(***************************************************************************)
\* An argument of american_to_decimal: None, a string float() rejects, or a
\* number n.
NoneArg == [kind |-> "None", n |-> 0]
TextArg == [kind |-> "text", n |-> 0]
Num(n) == [kind |-> "num", n |-> n]

Returned(v) == [exc |-> "none", val |-> v]
Raised(e) == [exc |-> e, val |-> FNaN]

\* A wrong american_to_decimal that divides by odds instead of abs(odds).
american_to_decimal_noabs(odds) ==
    IF odds.kind = "None" \/ odds.kind = "text" THEN Returned(FNaN)
    ELSE IF odds.n > 0 THEN Returned(FAdd(ToFloat(1), NpDiv(odds.n, 100)))
    ELSE IF odds.n = 0 THEN Raised("ZeroDivisionError")
    ELSE Returned(FAdd(ToFloat(1), NpDiv(100, odds.n)))

\* float(odds) raises TypeError for None and ValueError for such a string,
\* both caught; 100.0 / abs(0.0) raises ZeroDivisionError, which is not.
american_to_decimal(odds) ==
    IF odds.kind = "None" \/ odds.kind = "text" THEN Returned(FNaN)
    ELSE IF odds.n > 0 THEN Returned(FAdd(ToFloat(1), NpDiv(odds.n, 100)))
    ELSE IF Abs(odds.n) = 0 THEN Raised("ZeroDivisionError")
    ELSE Returned(FAdd(ToFloat(1), NpDiv(100, Abs(odds.n))))

(***************************************************************************)
(* The ledger file: to_csv / read_csv                                      *)
(***************************************************************************)
TextColumns ==
    {"sport", "market", "book", "bet_type", "selection", "result",
     "closing_line", "notes"}

\* to_csv writes a midnight Timestamp as an ISO date.
DateText(d) ==
    IF d < 10 THEN "2025-01-0" \o ToString(d) ELSE "2025-01-" \o ToString(d)

\* parse_dates=['date'] turns the text back into a Timestamp.
ParseDate(t) == CHOOSE d \in 1..(MaxDate + 1) : DateText(d) = t

\* One cell as to_csv writes it: a missing value becomes the empty cell
\* (na_rep=''), a string is written as it is, a number as its decimal text
\* (kept as the number it denotes).
to_csv_cell(col, v) ==
    IF col = "date" THEN DateText(v)
    ELSE IF col \in TextColumns THEN (IF v = NaN THEN "" ELSE v)
    ELSE v

\* One cell as read_csv reads it: the empty cell is a missing value.
read_csv_cell(col, c) ==
    IF col = "date" THEN ParseDate(c)
    ELSE IF col \in TextColumns THEN (IF c = "" THEN NaN ELSE c)
    ELSE c

AbsentFile == [exists |-> FALSE, rows |-> << >>]

load_bets(f) ==
    IF ~f.exists THEN << >>
    ELSE [i \in 1..Len(f.rows) |->
            [col \in DOMAIN f.rows[i] |-> read_csv_cell(col, f.rows[i][col])]]

\* The content of the file after df.to_csv(path, index=False).
save_bets(d) ==
    [exists |-> TRUE,
     rows   |-> [i \in 1..Len(d) |->
                   [col \in DOMAIN d[i] |-> to_csv_cell(col, d[i][col])]]]

\* A wrong add_bet that puts the new row first.
add_bet_prepend(d, bet_data) ==
    LET nd == <<bet_data>> \o d IN [df |-> nd, file |-> save_bets(nd)]

\* A wrong add_bet that persists the new row alone.
add_bet_only_new(d, bet_data) ==
    [df |-> Append(d, bet_data), file |-> save_bets(<<bet_data>>)]

\* add_bet returns the extended frame and leaves the file rewritten from it.
add_bet(d, bet_data) ==
    LET nd == Append(d, bet_data) IN [df |-> nd, file |-> save_bets(nd)]

(***************************************************************************)
(* compute_metrics                                                         *)
(***************************************************************************)
\* Sum of column col over the first n rows (Series.sum / Series.cumsum).
RECURSIVE SumCol(_, _, _)
SumCol(d, col, n) == IF n = 0 THEN 0 ELSE SumCol(d, col, n - 1) + d[n][col]

\* (df['profit'] > 0).sum() over the first n rows.
RECURSIVE CountWins(_, _)
CountWins(d, n) ==
    IF n = 0 THEN 0
    ELSE CountWins(d, n - 1) + (IF d[n].profit > 0 THEN 1 ELSE 0)

\* df['cumulative_profit'] = df['profit'].cumsum(): in row order.
cumsum_profit(d) == [i \in 1..Len(d) |-> SumCol(d, "profit", i)]

\* A wrong compute_metrics without the two zero guards.
compute_metrics_unguarded(d) ==
    [cumulative_profit |-> cumsum_profit(d),
     Total_Bets   |-> Len(d),
     Total_Staked |-> SumCol(d, "stake", Len(d)),
     Total_Profit |-> SumCol(d, "profit", Len(d)),
     ROI          |-> NpDiv(SumCol(d, "profit", Len(d)), SumCol(d, "stake", Len(d))),
     Win_Rate     |-> NpDiv(CountWins(d, Len(d)), Len(d))]

\* The returned metrics, and the cumulative_profit column it adds to df.
compute_metrics(d) ==
    LET total_staked == SumCol(d, "stake", Len(d))
        total_profit == SumCol(d, "profit", Len(d))
    IN  [cumulative_profit |-> cumsum_profit(d),
         Total_Bets   |-> Len(d),
         Total_Staked |-> total_staked,
         Total_Profit |-> total_profit,
         ROI          |-> IF total_staked # 0
                          THEN NpDiv(total_profit, total_staked)
                          ELSE ToFloat(0),
         Win_Rate     |-> IF Len(d) # 0
                          THEN NpDiv(CountWins(d, Len(d)), Len(d))
                          ELSE ToFloat(0)]

(***************************************************************************)
(* bankroll_simulation                                                     *)
(***************************************************************************)
\* r put behind every row of the sorted sequence s dated no later than r.
RECURSIVE InsertByDate(_, _)
InsertByDate(s, r) ==
    IF s = << >> THEN <<r>>
    ELSE IF s[Len(s)].date <= r.date THEN Append(s, r)
    ELSE Append(InsertByDate(SubSeq(s, 1, Len(s) - 1), r), s[Len(s)])

\* sort_values('date') of the first n rows; rows of one date keep their
\* order (numpy sorts fewer than 17 elements by insertion).
RECURSIVE SortFirst(_, _)
SortFirst(d, n) ==
    IF n = 0 THEN << >> ELSE InsertByDate(SortFirst(d, n - 1), d[n])

sort_values(d) == SortFirst(d, Len(d))

\* df['book'].unique()
Books(d) == {d[i].book : i \in 1..Len(d)}

StartingBalance(b) ==
    IF b \in DOMAIN STARTING_BANKROLLS THEN STARTING_BANKROLLS[b] ELSE 0

\* The loop over the sorted rows: the snapshots emitted for rows i..Len(s),
\* starting from the balances in running.
RECURSIVE Walk(_, _, _)
Walk(s, i, running) ==
    IF i > Len(s) THEN << >>
    ELSE LET b    == s[i].book
             run2 == [running EXCEPT ![b] = running[b] + s[i].profit]
         IN  <<[date |-> s[i].date, balance |-> run2]>> \o Walk(s, i + 1, run2)

\* drop_duplicates('date'): keep='first' is the default.
drop_duplicates(rows) ==
    LET keep(i) == \A j \in 1..(i - 1) : rows[j].date # rows[i].date
        RECURSIVE Pick(_)
        Pick(i) ==
            IF i > Len(rows) THEN << >>
            ELSE (IF keep(i) THEN <<rows[i]>> ELSE << >>) \o Pick(i + 1)
    IN  Pick(1)

\* pd.DataFrame([]) has no column at all: drop_duplicates returns an empty
\* frame as it is, and sort_values('date') then raises KeyError('date').
bankroll_simulation(d) ==
    LET s       == sort_values(d)
        running == [b \in Books(d) |-> StartingBalance(b)]
        rows    == Walk(s, 1, running)
    IN  IF rows = << >> THEN [exc |-> "KeyError", rows |-> << >>]
        ELSE [exc |-> "none", rows |-> sort_values(drop_duplicates(rows))]

(***************************************************************************)
(* ROI breakdown (tabs[1])                                                 *)
(***************************************************************************)
\* Sum of column col over the rows whose key column equals k.
RECURSIVE GroupSum(_, _, _, _, _)
GroupSum(d, key, k, col, n) ==
    IF n = 0 THEN 0
    ELSE GroupSum(d, key, k, col, n - 1) + (IF d[n][key] = k THEN d[n][col] ELSE 0)

\* df.groupby(key).agg({'profit':'sum','stake':'sum'}) with the ROI column:
\* one row per key value; groupby leaves out the rows whose key is missing.
roi_by(d, key) ==
    LET keys == {d[i][key] : i \in 1..Len(d)} \ {NaN}
    IN  [k \in keys |->
           LET p  == GroupSum(d, key, k, "profit", Len(d))
               st == GroupSum(d, key, k, "stake", Len(d))
           IN  [profit |-> p, stake |-> st, ROI |-> NpDiv(p, st)]]

(***************************************************************************)
(* State                                                                   *)
(***************************************************************************)
VARIABLES
    file,      \* bets_log.csv: whether it exists, and its rows of cells
    pc,        \* per session: "idle" between runs, "loaded" after line 90
    df,        \* per session: the script's DataFrame df
    view,      \* per session: what the last run of the script rendered
    acked,     \* the submissions acknowledged by st.success, in order
    started,   \* the sessions that have run the script at least once
    arg_odds,  \* direct call of a helper: the odds argument
    arg_df,    \* direct call of a helper: the DataFrame argument
    call       \* direct call of a helper: the function called and its outcome

vars == <<file, pc, df, view, acked, started, arg_odds, arg_df, call>>

\* Two browser sessions, each running app.py in its own script thread.
Sessions == {"s1", "s2"}

(***************************************************************************)
(* The form                                                                *)
(***************************************************************************)
\* What the widgets return for sport, book, odds, stake and profit.
BetKinds ==
    { [sport |-> "NBA", book |-> "FanDuel",    odds_american |-> -200, stake |-> 10, profit |-> 5],
      [sport |-> "NFL", book |-> "DraftKings", odds_american |-> 150,  stake |-> 10, profit |-> -10],
      [sport |-> "",    book |-> "FanDuel",    odds_american |-> -110, stake |-> 0,  profit |-> 0],
      [sport |-> "NBA", book |-> "Caesars",    odds_american |-> 0,    stake |-> 10, profit |-> 5] }

FormInputs == {[date |-> d, kind |-> k] : d \in 1..MaxDate, k \in BetKinds}

\* The dict new_bet built on submission; the other widgets keep their defaults.
new_bet(form, odds_decimal) ==
    [date           |-> form.date,
     sport          |-> form.kind.sport,
     market         |-> "Moneyline",
     book           |-> form.kind.book,
     bet_type       |-> "Single",
     selection      |-> "LAL -3",
     odds_american  |-> form.kind.odds_american,
     odds_decimal   |-> odds_decimal,
     stake          |-> form.kind.stake,
     result         |-> "Pending",
     profit         |-> form.kind.profit,
     expected_value |-> 0,
     closing_line   |-> "",
     notes          |-> ""]

(***************************************************************************)
(* The dashboard (lines 130-172)                                           *)
(***************************************************************************)
\* df after compute_metrics has added the cumulative_profit column to it.
with_cumulative_profit(d, m) ==
    [i \in 1..Len(d) |->
       [col \in DOMAIN d[i] \cup {"cumulative_profit"} |->
          IF col = "cumulative_profit" THEN m.cumulative_profit[i] ELSE d[i][col]]]

\* What the run renders from d, and d as the run leaves it.
Dashboard(d) ==
    IF d = << >> THEN [df |-> d, view |-> [status |-> "stopped"]]
    ELSE LET m  == compute_metrics(d)
             d2 == with_cumulative_profit(d, m)
         IN  [df   |-> d2,
              view |-> [status   |-> "rendered",
                        metrics  |-> m,
                        line     |-> sort_values(d2),
                        by_sport |-> roi_by(d2, "sport"),
                        by_book  |-> roi_by(d2, "book"),
                        bal_ts   |-> bankroll_simulation(d2)]]

(***************************************************************************)
(* The page cycle of a session                                             *)
(***************************************************************************)
NoCall == [fn |-> "none"]

Init ==
    /\ file = AbsentFile
    /\ pc = [s \in Sessions |-> "idle"]
    /\ df = [s \in Sessions |-> << >>]
    /\ view = [s \in Sessions |-> [status |-> "none"]]
    /\ acked = << >>
    /\ started = {}
    /\ arg_odds = NoneArg
    /\ arg_df = << >>
    /\ call = NoCall

\* A rerun starts, clearing the page: df = load_bets() (line 90).
Load(s) ==
    /\ pc[s] = "idle"
    /\ pc' = [pc EXCEPT ![s] = "loaded"]
    /\ df' = [df EXCEPT ![s] = load_bets(file)]
    /\ view' = [view EXCEPT ![s] = [status |-> "running"]]
    /\ started' = started \cup {s}
    /\ UNCHANGED <<file, acked, arg_odds, arg_df, call>>

\* The run was triggered by "Add Bet": lines 110-128, then the dashboard.
Submit(s, form) ==
    /\ pc[s] = "loaded"
    /\ Len(acked) < MaxLen
    /\ LET dec == american_to_decimal(Num(form.kind.odds_american))
       IN  /\ dec.exc = "none"
           /\ LET bet  == new_bet(form, dec.val)
                  res  == add_bet(df[s], bet)
                  dash == Dashboard(res.df)
              IN  /\ file' = res.file
                  /\ acked' = Append(acked, bet)
                  /\ df' = [df EXCEPT ![s] = dash.df]
                  /\ view' = [view EXCEPT ![s] = dash.view]
    /\ pc' = [pc EXCEPT ![s] = "idle"]
    /\ UNCHANGED <<started, arg_odds, arg_df, call>>

\* "Add Bet" with odds for which american_to_decimal raises: the run ends
\* with the exception at line 119, before add_bet.
SubmitRaises(s, form) ==
    /\ pc[s] = "loaded"
    /\ LET dec == american_to_decimal(Num(form.kind.odds_american))
       IN  /\ dec.exc # "none"
           /\ view' = [view EXCEPT ![s] = [status |-> "error", exc |-> dec.exc]]
    /\ pc' = [pc EXCEPT ![s] = "idle"]
    /\ UNCHANGED <<file, df, acked, started, arg_odds, arg_df, call>>

\* A run not triggered by the form: submitted is False, only the dashboard.
Skip(s) ==
    /\ pc[s] = "loaded"
    /\ LET dash == Dashboard(df[s])
       IN  /\ df' = [df EXCEPT ![s] = dash.df]
           /\ view' = [view EXCEPT ![s] = dash.view]
    /\ pc' = [pc EXCEPT ![s] = "idle"]
    /\ UNCHANGED <<file, acked, started, arg_odds, arg_df, call>>

Next ==
    \E s \in Sessions :
        \/ Load(s)
        \/ \E form \in FormInputs : Submit(s, form)
        \/ \E form \in FormInputs : SubmitRaises(s, form)
        \/ Skip(s)

Spec == Init /\ [][Next]_vars

(***************************************************************************)
(* The helpers called directly                                             *)
(***************************************************************************)
\* The rows a session can hold: submitted with odds that convert.
StorableRows ==
    {new_bet(f, american_to_decimal(Num(f.kind.odds_american)).val) :
        f \in {g \in FormInputs : g.kind.odds_american # 0}}

\* The frames load_bets returns for the files the sessions can write.
Ledgers ==
    {load_bets(save_bets(l)) :
        l \in UNION {[1..n -> StorableRows] : n \in 0..MaxLen}}

\* Arguments of american_to_decimal: missing, not a number, and numbers.
OddsInputs == {NoneArg, TextArg} \cup {Num(n) : n \in {-200, -110, -100, 0, 100, 150}}

InitFn ==
    /\ file = AbsentFile
    /\ pc = [s \in Sessions |-> "idle"]
    /\ df = [s \in Sessions |-> << >>]
    /\ view = [s \in Sessions |-> [status |-> "none"]]
    /\ acked = << >>
    /\ started = {}
    /\ arg_odds \in OddsInputs
    /\ arg_df \in Ledgers
    /\ call = NoCall

CallAmericanToDecimal ==
    /\ call' = [fn |-> "american_to_decimal", ret |-> american_to_decimal(arg_odds)]
    /\ UNCHANGED <<file, pc, df, view, acked, started, arg_odds, arg_df>>

CallComputeMetrics ==
    /\ call' = [fn |-> "compute_metrics", ret |-> compute_metrics(arg_df)]
    /\ UNCHANGED <<file, pc, df, view, acked, started, arg_odds, arg_df>>

CallBankrollSimulation ==
    /\ call' = [fn |-> "bankroll_simulation", ret |-> bankroll_simulation(arg_df)]
    /\ UNCHANGED <<file, pc, df, view, acked, started, arg_odds, arg_df>>

NextFn ==
    \/ CallAmericanToDecimal
    \/ CallComputeMetrics
    \/ CallBankrollSimulation

SpecFn == InitFn /\ [][NextFn]_vars

(***************************************************************************)
(* Properties                                                              *)
(***************************************************************************)
\* Sum of column col of d over the rows whose index is in S.
RECURSIVE SumOver(_, _, _)
SumOver(d, col, S) ==
    IF S = {} THEN 0
    ELSE LET i == CHOOSE x \in S : TRUE
         IN  d[i][col] + SumOver(d, col, S \ {i})

\* The float q is the quotient a/b of two numbers, b # 0.
IsQuotient(q, a, b) == IsFinite(q) /\ q[1] * b = a * q[2]

\* Session s has just had a submission acknowledged in this step.
Acknowledged(s) == pc[s] = "loaded" /\ pc'[s] = "idle" /\ Len(acked') = Len(acked) + 1

\* C1: appending record R to the ledger L a session loaded and reloading
\* the file yields L ++ [R], field-wise equal (dates compared as dates).
C1_RoundTrip ==
    [][\A s \in Sessions :
          Acknowledged(s) =>
              load_bets(file') = Append(df[s], acked'[Len(acked')])]_vars

\* C2: bankroll_simulation returns one snapshot per distinct date, and in
\* the snapshot of date d every book's balance is its starting balance plus
\* the profits of all its records dated on or before d.
C2_SnapshotReflectsWholeDay ==
    (call.fn = "bankroll_simulation" /\ call.ret.exc = "none") =>
        LET rows == call.ret.rows
            idx  == 1..Len(arg_df)
        IN  /\ {rows[k].date : k \in 1..Len(rows)} = {arg_df[i].date : i \in idx}
            /\ Len(rows) = Cardinality({arg_df[i].date : i \in idx})
            /\ \A k \in 1..Len(rows) : \A b \in {arg_df[i].book : i \in idx} :
                  rows[k].balance[b] =
                      (IF b \in {"FanDuel", "DraftKings", "Caesars"} THEN 200 ELSE 0)
                      + SumOver(arg_df, "profit",
                                {i \in idx : arg_df[i].book = b
                                             /\ arg_df[i].date <= rows[k].date})

\* C3: cumulative_profit of a record is the sum of the profits of the
\* records that precede it or equal it in ascending date order, ties
\* broken by insertion order.
C3_CumulativeInDateOrder ==
    call.fn = "compute_metrics" =>
        \A i \in 1..Len(arg_df) :
            call.ret.cumulative_profit[i] =
                SumOver(arg_df, "profit",
                        {j \in 1..Len(arg_df) :
                            \/ arg_df[j].date < arg_df[i].date
                            \/ (arg_df[j].date = arg_df[i].date /\ j <= i)})

\* C4: bankroll_simulation of the empty ledger returns the empty snapshot
\* sequence and does not raise.
C4_EmptyLedgerEmptySnapshots ==
    (call.fn = "bankroll_simulation" /\ arg_df = << >>) =>
        (call.ret.exc = "none" /\ call.ret.rows = << >>)

\* C5: american_to_decimal returns NaN, and raises nothing, for a missing
\* or non-numeric input and for odds == 0.
C5_NaNForBadInput ==
    (/\ call.fn = "american_to_decimal"
     /\ \/ arg_odds.kind \in {"None", "text"}
        \/ (arg_odds.kind = "num" /\ arg_odds.n = 0)) =>
        (call.ret.exc = "none" /\ call.ret.val = FNaN)

\* C6: compute_metrics gives Total Bets = number of records, ROI =
\* total_profit / total_staked (0 when total_staked is 0) and Win Rate =
\* count(profit > 0) / count(records) (0 for the empty ledger), always a
\* finite number.
C6_MetricsGuarded ==
    call.fn = "compute_metrics" =>
        LET m      == call.ret
            idx    == 1..Len(arg_df)
            staked == SumOver(arg_df, "stake", idx)
            profit == SumOver(arg_df, "profit", idx)
            wins   == Cardinality({i \in idx : arg_df[i].profit > 0})
        IN  /\ m.Total_Bets = Len(arg_df)
            /\ IsFinite(m.ROI) /\ IsFinite(m.Win_Rate)
            /\ staked # 0 => IsQuotient(m.ROI, profit, staked)
            /\ staked = 0 => m.ROI = <<0, 1>>
            /\ idx # {} => IsQuotient(m.Win_Rate, wins, Len(arg_df))
            /\ idx = {} => m.Win_Rate = <<0, 1>>

\* C6 witness: compute_metrics has run on a ledger of two records whose
\* stakes sum to zero and returned ROI = 0.
C6_Witness ==
    /\ call.fn = "compute_metrics"
    /\ Len(arg_df) = 2
    /\ SumOver(arg_df, "stake", 1..2) = 0
    /\ call.ret.ROI = <<0, 1>>

\* The odds_decimal d is the conversion of the non-zero American odds o.
IsDecimalOf(d, o) ==
    /\ o # 0
    /\ IsFinite(d)
    /\ o > 0 => d[1] * 100 = d[2] * (100 + o)
    /\ o < 0 => d[1] * (-o) = d[2] * (100 - o)
    /\ d[1] > d[2]

\* C7: the odds_decimal of every submitted record, in the file and in every
\* session's frame, is 1 + o/100 for o > 0 and 1 + 100/|o| for o < 0 of
\* its odds_american o, hence greater than 1.
C7_DecimalFromAmerican ==
    /\ \A i \in 1..Len(file.rows) :
          IsDecimalOf(file.rows[i].odds_decimal, file.rows[i].odds_american)
    /\ \A i \in 1..Len(acked) :
          IsDecimalOf(acked[i].odds_decimal, acked[i].odds_american)
    /\ \A s \in Sessions : \A i \in 1..Len(df[s]) :
          IsDecimalOf(df[s][i].odds_decimal, df[s][i].odds_american)

\* C7 witness: the file holds a record with positive and one with negative
\* odds.
C7_Witness ==
    /\ \E i \in 1..Len(file.rows) : file.rows[i].odds_american > 0
    /\ \E i \in 1..Len(file.rows) : file.rows[i].odds_american < 0

C9_GroupedROI ==
    \A s \in Sessions : view[s].status = "rendered" =>
        \A key \in {"sport", "book"} :
            LET d   == df[s]
                idx == 1..Len(d)
                g   == IF key = "sport" THEN view[s].by_sport ELSE view[s].by_book
            IN  /\ \A k \in DOMAIN g :
                      LET grp == {i \in idx : d[i][key] = k}
                      IN  g[k].ROI = NpDiv(SumOver(d, "profit", grp),
                                           SumOver(d, "stake", grp))
                /\ (\A i, j \in idx : d[i][key] = d[j][key]) =>
                      /\ Cardinality(DOMAIN g) = 1
                      /\ \A k \in DOMAIN g :
                            g[k].ROI = NpDiv(SumOver(d, "profit", idx),
                                             SumOver(d, "stake", idx))

\* C10: with a single session no acknowledged append is lost: the file
\* holds exactly the acknowledged records, in order.
C10_SingleSessionLosesNothing ==
    Cardinality(started) <= 1 =>
        /\ Len(file.rows) = Len(acked)
        /\ \A i \in 1..Len(acked) :
              /\ file.rows[i].date = DateText(acked[i].date)
              /\ \A col \in {"book", "odds_american", "odds_decimal", "stake", "profit"} :
                    file.rows[i][col] = acked[i][col]

\* C10 witness: two sessions both loaded before either saved; both appends
\* were acknowledged and the file holds only one of the two records.
C10_Witness ==
    /\ started = Sessions
    /\ \A s \in Sessions : pc[s] = "idle" /\ view[s].status = "rendered"
    /\ Len(acked) = 2
    /\ Len(file.rows) = 1
    /\ \A s \in Sessions : Len(df[s]) = 1

====
